---------------------------- MODULE Spec2Model ----------------------------
(***************************************************************************)
(* server-fetch: serverFetch(url, options) validates a URL (scheme, port,  *)
(* public suffix, DNS resolution, private-range classification) and then   *)
(* hands it to fetch under a timeout (src/src/index.ts).                   *)
(*                                                                         *)
(* One call is modelled from its start to its settlement; the next call    *)
(* starts once the previous one is over.  The code keeps no state between  *)
(* calls (every variable below except `calls` is a local of one call), so  *)
(* concurrent calls would be independent copies of this machine.           *)
(*                                                                         *)
(* Actions are event-loop tasks: the code between two awaits, together     *)
(* with the promise continuations (microtasks) that run before the next    *)
(* task can start.                                                         *)
(*                                                                         *)
(* Texts are kept as what they are made of: a protocol is a sequence of    *)
(* characters, a port a sequence of digits, a hostname a sequence of       *)
(* labels, an IPv4 text a sequence of decimal parts, an IPv6 text a        *)
(* sequence of groups plus whether its last 32 bits are written dotted.    *)
(***************************************************************************)
EXTENDS Integers, Sequences, FiniteSets, TLC

VARIABLES
    pc,            \* "idle" | "lookup" | "fetch" | "done": where the call is
    urlString,     \* serverFetch's url argument, as text
    options,       \* serverFetch's options argument
    answer,        \* what lookup(hostname) settled with
    dnsCalls,      \* number of lookup() invocations made by this call
    fetched,       \* the invocations of fetch made by this call: <<[url, init]>>
    timer,         \* the call's timer: [state, delay]
    aborted,       \* controller.signal.aborted
    callerAborted, \* whether the caller has aborted its own options.signal
    result,        \* the promise serverFetch returned: pending, fulfilled, rejected
    cause,         \* the step that ended the call
    calls          \* number of calls started so far

vars == <<pc, urlString, options, answer, dnsCalls, fetched, timer, aborted,
          callerAborted, result, cause, calls>>

\* Number of serverFetch calls in one behaviour, made one after the other.
MaxCalls == 2

---------------------------------------------------------------------------
(* Constants of the module, lines 10-13.                                   *)

DEFAULT_TIMEOUT == 10000

\* A variant that lets a development port through.
ALLOWED_PORTS_With8080 == {80, 443, 8080}

ALLOWED_PORTS == {80, 443}

\* A variant that lets ftp through.
ALLOWED_SCHEMES_WithFtp ==
    { <<"h","t","t","p">>, <<"h","t","t","p","s">>, <<"f","t","p">> }

ALLOWED_SCHEMES == { <<"h","t","t","p">>, <<"h","t","t","p","s">> }

V4Text(parts) == [t |-> "v4", parts |-> parts, dotted |-> FALSE]

V6Text(groups, dotted) == [t |-> "v6", parts |-> groups, dotted |-> dotted]

AWS_IMDS_ENDPOINT == V4Text(<<169, 254, 169, 254>>)

---------------------------------------------------------------------------
(* Texts and numbers.                                                      *)

DigitVal(c) ==
    CASE c = "0" -> 0 [] c = "1" -> 1 [] c = "2" -> 2 [] c = "3" -> 3
      [] c = "4" -> 4 [] c = "5" -> 5 [] c = "6" -> 6 [] c = "7" -> 7
      [] c = "8" -> 8 [] c = "9" -> 9

DigitChar(d) ==
    CASE d = 0 -> "0" [] d = 1 -> "1" [] d = 2 -> "2" [] d = 3 -> "3"
      [] d = 4 -> "4" [] d = 5 -> "5" [] d = 6 -> "6" [] d = 7 -> "7"
      [] d = 8 -> "8" [] d = 9 -> "9"

\* parseInt(digits, 10) on a non-empty digit sequence.
RECURSIVE parseInt(_)
parseInt(ds) ==
    IF ds = <<>> THEN 0
    ELSE 10 * parseInt(SubSeq(ds, 1, Len(ds) - 1)) + DigitVal(ds[Len(ds)])

\* `${n}` for a non-negative integer n.
RECURSIVE NumberToString(_)
NumberToString(n) ==
    IF n < 10 THEN <<DigitChar(n)>>
    ELSE NumberToString(n \div 10) \o <<DigitChar(n % 10)>>

ToLower(c) ==
    CASE c = "H" -> "h" [] c = "T" -> "t" [] c = "P" -> "p" [] c = "S" -> "s"
      [] c = "F" -> "f" [] OTHER -> c

\* String.prototype.slice(0, -1)
SliceDropLast(s) == SubSeq(s, 1, Len(s) - 1)

---------------------------------------------------------------------------
(* Errors: [name, message].                                                *)

Error(message) == [name |-> "Error", message |-> message]

InvalidURLError == [name |-> "TypeError", message |-> <<"Invalid URL">>]

InvalidSchemeError(protocol) == Error(<<"Invalid scheme: ">> \o protocol)

InvalidPortError(port) == Error(<<"Invalid port: ">> \o NumberToString(port))

InvalidHostnameError(hostname) == Error(<<"Invalid hostname: ">> \o hostname)

\* The text of ip is left out of the message: line 64 discards this error.
InvalidIPError == Error(<<"Invalid IP address: ">>)

PrivateNetworkError == Error(<<"Private network addresses are not allowed">>)

\* What fetch rejects with when its signal is aborted without a reason.
AbortError == [name |-> "AbortError", message |-> <<"This operation was aborted">>]

\* What fetch rejects with when the request fails.
NetworkError == [name |-> "TypeError", message |-> <<"fetch failed">>]

Return(v) == [ok |-> TRUE, value |-> v]

Throw(e) == [ok |-> FALSE, error |-> e]

---------------------------------------------------------------------------
(* new URL(urlString), line 70.  A URL text is [scheme, port, host]: the   *)
(* scheme as written, the explicit port's digits (<<>> when none is        *)
(* written) and the host's labels.  The parser lowercases the scheme,      *)
(* drops a port equal to the scheme's default, and throws a TypeError when *)
(* there is no scheme or the port exceeds 65535.                           *)

DefaultPort(scheme) ==
    CASE scheme = <<"h","t","t","p">> -> 80
      [] scheme = <<"h","t","t","p","s">> -> 443
      [] scheme = <<"f","t","p">> -> 21
      [] OTHER -> -1

NewURL(s) ==
    LET scheme == [i \in 1..Len(s.scheme) |-> ToLower(s.scheme[i])]
        n      == parseInt(s.port)
    IN  IF s.scheme = <<>> \/ (s.port # <<>> /\ n > 65535)
        THEN Throw(InvalidURLError)
        ELSE Return([protocol |-> scheme \o <<":">>,
                     port     |-> IF s.port = <<>> \/ n = DefaultPort(scheme)
                                  THEN <<>> ELSE NumberToString(n),
                     hostname |-> s.host])

---------------------------------------------------------------------------
(* publicSuffixList.isValid(hostname), line 84: the hostname ends with a   *)
(* listed public suffix and has at least one label before it.              *)

PublicSuffixes == { <<"com">>, <<"co", "uk">> }

EndsWith(h, s) ==
    /\ Len(h) >= Len(s)
    /\ SubSeq(h, Len(h) - Len(s) + 1, Len(h)) = s

pslIsValid(h) == \E s \in PublicSuffixes : EndsWith(h, s) /\ Len(h) > Len(s)

---------------------------------------------------------------------------
(* ip-address: Address4 and Address6 as the code uses them.                *)

\* new Address4(text): throws unless the text is four decimal parts <= 255.
Address4(text) ==
    IF /\ text.t = "v4"
       /\ Len(text.parts) = 4
       /\ \A i \in 1..4 : text.parts[i] \in 0..255
    THEN Return([family |-> 4, parts |-> text.parts, v4 |-> FALSE])
    ELSE Throw(Error(<<"Invalid IPv4 address.">>))

\* new Address6(text): a trailing dotted quad is turned into two groups and
\* sets v4; the text must then have eight groups.  A bare IPv4 text becomes
\* two groups and is refused ("Incorrect number of groups found").
Address6(text) ==
    IF /\ text.t = "v6"
       /\ Len(text.parts) = 8
       /\ \A i \in 1..8 : text.parts[i] \in 0..65535
    THEN Return([family |-> 6, parts |-> text.parts, v4 |-> text.dotted])
    ELSE Throw(Error(<<"Incorrect number of groups found">>))

\* addr6.is4()
is4(a) == a.v4

\* addr6.to4().address: the low 32 bits as an IPv4 text.
to4(a) ==
    V4Text(<< a.parts[7] \div 256, a.parts[7] % 256,
              a.parts[8] \div 256, a.parts[8] % 256 >>)

\* correctForm(): the canonical text; an IPv6 one is never dotted.
correctForm(a) ==
    IF a.family = 4 THEN V4Text(a.parts) ELSE V6Text(a.parts, FALSE)

\* binaryZeroPad(): the address as bits, w bits a part.
binaryZeroPad(parts, w) ==
    [i \in 1..(Len(parts) * w) |->
        (parts[((i - 1) \div w) + 1] \div (2 ^ (w - 1 - ((i - 1) % w)))) % 2]

PartWidth(a) == IF a.family = 4 THEN 8 ELSE 16

\* addr.isInSubnet(range): the first range.mask bits agree.
isInSubnet(a, range) ==
    SubSeq(binaryZeroPad(a.parts, PartWidth(a)), 1, range.mask)
        = SubSeq(binaryZeroPad(range.parts, PartWidth(a)), 1, range.mask)

---------------------------------------------------------------------------
(* normalizeIP, lines 16-31.                                               *)

\* ip.includes(':')
IncludesColon(ip) == ip.t = "v6"

normalizeIP(ip) ==
    IF IncludesColon(ip)
    THEN LET addr6 == Address6(ip)
         IN  IF ~addr6.ok THEN Throw(InvalidIPError)
             ELSE IF is4(addr6.value)
                  THEN LET a4 == Address4(to4(addr6.value))
                       IN  IF a4.ok THEN Return(correctForm(a4.value))
                           ELSE Throw(InvalidIPError)
                  ELSE Return(correctForm(addr6.value))
    ELSE LET a4 == Address4(ip)
         IN  IF a4.ok THEN Return(correctForm(a4.value))
             ELSE Throw(InvalidIPError)

---------------------------------------------------------------------------
(* The private ranges, lines 33-46: [parts, mask] for 'base/mask'.         *)

\* A variant without 100.64.0.0/10.
PRIVATE_IPV4_RANGES_NoCgnat ==
    { [parts |-> <<0, 0, 0, 0>>,     mask |-> 8],
      [parts |-> <<10, 0, 0, 0>>,    mask |-> 8],
      [parts |-> <<127, 0, 0, 0>>,   mask |-> 8],
      [parts |-> <<169, 254, 0, 0>>, mask |-> 16],
      [parts |-> <<172, 16, 0, 0>>,  mask |-> 12],
      [parts |-> <<192, 168, 0, 0>>, mask |-> 16],
      [parts |-> <<198, 18, 0, 0>>,  mask |-> 15],
      [parts |-> <<240, 0, 0, 0>>,   mask |-> 4] }

PRIVATE_IPV4_RANGES ==
    { [parts |-> <<0, 0, 0, 0>>,     mask |-> 8],
      [parts |-> <<10, 0, 0, 0>>,    mask |-> 8],
      [parts |-> <<100, 64, 0, 0>>,  mask |-> 10],
      [parts |-> <<127, 0, 0, 0>>,   mask |-> 8],
      [parts |-> <<169, 254, 0, 0>>, mask |-> 16],
      [parts |-> <<172, 16, 0, 0>>,  mask |-> 12],
      [parts |-> <<192, 168, 0, 0>>, mask |-> 16],
      [parts |-> <<198, 18, 0, 0>>,  mask |-> 15],
      [parts |-> <<240, 0, 0, 0>>,   mask |-> 4] }

PRIVATE_IPV6_RANGES ==
    { [parts |-> <<0, 0, 0, 0, 0, 0, 0, 1>>,     mask |-> 128],
      [parts |-> <<0, 0, 0, 0, 0, 0, 0, 0>>,     mask |-> 128],
      [parts |-> <<64512, 0, 0, 0, 0, 0, 0, 0>>, mask |-> 7],
      [parts |-> <<65152, 0, 0, 0, 0, 0, 0, 0>>, mask |-> 10] }

---------------------------------------------------------------------------
(* isPrivateHostname, lines 48-67, given what lookup(hostname) settled     *)
(* with.  Every throw inside the try, the rejection of lookup included, is *)
(* replaced by the error of line 65.                                       *)

isPrivateHostname(hostname, ans) ==
    LET caught == Throw(InvalidHostnameError(hostname))
    IN  IF ans.status # "ok" THEN caught
        ELSE LET normalizedIP == normalizeIP(ans.address)
             IN  IF ~normalizedIP.ok THEN caught
                 ELSE IF ans.family = 4
                      THEN LET addr == Address4(normalizedIP.value)
                           IN  IF ~addr.ok THEN caught
                               ELSE IF normalizedIP.value = AWS_IMDS_ENDPOINT
                                    THEN Return(TRUE)
                                    ELSE Return(\E range \in PRIVATE_IPV4_RANGES :
                                                  isInSubnet(addr.value, range))
                      ELSE LET addr == Address6(normalizedIP.value)
                           IN  IF ~addr.ok THEN caught
                               ELSE Return(\E range \in PRIVATE_IPV6_RANGES :
                                             isInSubnet(addr.value, range))

---------------------------------------------------------------------------
(* validateUrl, lines 69-94, in its two tasks: up to the await of line 89, *)
(* and from lookup's settlement on.                                        *)

\* line 78
EffectivePort(url) ==
    IF url.port # <<>> THEN parseInt(url.port)
    ELSE IF url.protocol = <<"h","t","t","p","s",":">> THEN 443 ELSE 80

Thrown(e, c) == [step |-> "throw", error |-> e, cause |-> c]

\* lines 70-86: the checks made before any I/O.
validateUrlHead(s) ==
    LET parsed == NewURL(s)
    IN  IF ~parsed.ok THEN Thrown(parsed.error, "url")
        ELSE LET url == parsed.value
             IN  IF SliceDropLast(url.protocol) \notin ALLOWED_SCHEMES
                 THEN Thrown(InvalidSchemeError(url.protocol), "scheme")
                 ELSE IF EffectivePort(url) \notin ALLOWED_PORTS
                 THEN Thrown(InvalidPortError(EffectivePort(url)), "port")
                 ELSE IF ~pslIsValid(url.hostname)
                 THEN Thrown(InvalidHostnameError(url.hostname), "suffix")
                 ELSE [step |-> "lookup", url |-> url]

\* A fail-open variant: an error of isPrivateHostname counts as "not private".
validateUrlTail_FailOpen(url, ans) ==
    LET private == isPrivateHostname(url.hostname, ans)
    IN  IF private.ok /\ private.value
        THEN Thrown(PrivateNetworkError, "private")
        ELSE [step |-> "return", url |-> url]

\* lines 89-93, given what lookup settled with.  The cause tells a failed
\* lookup from an address the code could not parse; the error does not.
validateUrlTail(url, ans) ==
    LET private == isPrivateHostname(url.hostname, ans)
    IN  IF ~private.ok
        THEN Thrown(private.error,
                    IF ans.status # "ok" THEN "resolution" ELSE "address")
        ELSE IF private.value
        THEN Thrown(PrivateNetworkError, "private")
        ELSE [step |-> "return", url |-> url]

---------------------------------------------------------------------------
(* serverFetch, lines 96-116.                                              *)

ControllerSignal == "controller.signal"

CallerSignal == "options.signal"

\* line 104: options.timeout ?? DEFAULT_TIMEOUT
Timeout(o) == IF "timeout" \in DOMAIN o THEN o["timeout"] ELSE DEFAULT_TIMEOUT

\* The spread written the other way round: { signal, ...options }.
FetchInit_OptionsLast(o) ==
    [k \in DOMAIN o \cup {"signal"} |->
        IF k \in DOMAIN o THEN o[k] ELSE ControllerSignal]

\* lines 109-110: { ...options, signal: controller.signal }
FetchInit(o) ==
    [k \in DOMAIN o \cup {"signal"} |->
        IF k = "signal" THEN ControllerSignal ELSE o[k]]

NoTimer == [state |-> "none", delay |-> 0]

\* line 105
setTimeout(delay) == [state |-> "armed", delay |-> delay]

\* line 114: clearing a timer that has fired, or that was never made, does nothing.
clearTimeout(t) == IF t.state = "armed" THEN [t EXCEPT !.state = "cleared"] ELSE t

Pending == [status |-> "pending"]

Fulfilled(r) == [status |-> "fulfilled", response |-> r]

Rejected(e) == [status |-> "rejected", error |-> e]

NoAnswer == [status |-> "none", family |-> 0, address |-> V4Text(<<>>)]

---------------------------------------------------------------------------
(* The inputs of a call and the answers of its collaborators.              *)

Schemes == { <<"h","t","t","p">>, <<"h","t","t","p","s">>,
             <<"H","T","T","P","S">>, <<"f","t","p">>, <<>> }

Ports == { <<>>, <<"8","0">>, <<"4","4","3">>, <<"8","0","8","0">>,
           <<"2","1">>, <<"0">>, <<"7","0","0","0","0">> }

Hosts == { <<"example", "com">>, <<"api", "example", "co", "uk">>,
           <<"localhost">>, <<"10", "0", "0", "1">>, <<"com">> }

Urls == [scheme : Schemes, port : Ports, host : Hosts]

Methods == {"GET", "POST"}

Timeouts == {0, 5000}

\* {} (the default of line 98), and options with and without a timeout and
\* a signal of the caller's.
OptionsSet ==
    { <<>> }
    \cup { [method |-> m] : m \in Methods }
    \cup { [method |-> m, timeout |-> t] : m \in Methods, t \in Timeouts }
    \cup { [method |-> m, signal |-> CallerSignal] : m \in Methods }
    \cup { [method |-> m, timeout |-> t, signal |-> CallerSignal] :
             m \in Methods, t \in Timeouts }

Resolved(family, text) == [status |-> "ok", family |-> family, address |-> text]

\* Family-4 answers: addresses inside, and on both sides of the edges of,
\* every range of lines 34-44.
Answers4 ==
    { Resolved(4, V4Text(a)) : a \in
        { <<0, 0, 0, 0>>, <<0, 255, 255, 255>>, <<1, 0, 0, 0>>, <<1, 1, 1, 1>>,
          <<8, 8, 8, 8>>, <<9, 255, 255, 255>>, <<10, 0, 0, 1>>,
          <<10, 255, 255, 255>>, <<11, 0, 0, 0>>, <<93, 184, 216, 34>>,
          <<100, 63, 255, 255>>, <<100, 64, 0, 1>>, <<100, 127, 255, 255>>,
          <<100, 128, 0, 0>>, <<126, 255, 255, 255>>, <<127, 0, 0, 1>>,
          <<128, 0, 0, 0>>, <<169, 253, 255, 255>>, <<169, 254, 0, 1>>,
          <<169, 254, 169, 254>>, <<169, 255, 0, 0>>, <<172, 15, 255, 255>>,
          <<172, 16, 0, 1>>, <<172, 31, 255, 255>>, <<172, 32, 0, 0>>,
          <<192, 167, 255, 255>>, <<192, 168, 1, 1>>, <<192, 169, 0, 0>>,
          <<198, 17, 255, 255>>, <<198, 18, 0, 1>>, <<198, 19, 255, 255>>,
          <<198, 20, 0, 0>>, <<239, 255, 255, 255>>, <<240, 0, 0, 1>>,
          <<255, 255, 255, 255>> } }

\* Family-6 answers written in groups only.
Answers6 ==
    { Resolved(6, V6Text(g, FALSE)) : g \in
        { <<0, 0, 0, 0, 0, 0, 0, 0>>, <<0, 0, 0, 0, 0, 0, 0, 1>>,
          <<8193, 18528, 18528, 0, 0, 0, 0, 34952>>,
          <<100, 65435, 0, 0, 0, 0, 2560, 1>>,
          <<64511, 65535, 65535, 65535, 65535, 65535, 65535, 65535>>,
          <<64512, 0, 0, 0, 0, 0, 0, 1>>,
          <<65023, 65535, 65535, 65535, 65535, 65535, 65535, 65535>>,
          <<65024, 0, 0, 0, 0, 0, 0, 0>>,
          <<65151, 65535, 0, 0, 0, 0, 0, 1>>,
          <<65152, 0, 0, 0, 0, 0, 0, 1>>,
          <<65215, 65535, 65535, 65535, 65535, 65535, 65535, 65535>>,
          <<65216, 0, 0, 0, 0, 0, 0, 1>> } }

\* Family-6 answers the resolver writes with a dotted quad at the end:
\* the IPv4-mapped ::ffff:a.b.c.d and the IPv4-compatible ::a.b.c.d.
Answers6Dotted ==
    { Resolved(6, V6Text(g, TRUE)) : g \in
        { <<0, 0, 0, 0, 0, 65535, 2560, 1>>,
          <<0, 0, 0, 0, 0, 65535, 32512, 1>>,
          <<0, 0, 0, 0, 0, 65535, 43518, 43518>>,
          <<0, 0, 0, 0, 0, 65535, 49320, 257>>,
          <<0, 0, 0, 0, 0, 65535, 2056, 2056>>,
          <<0, 0, 0, 0, 0, 0, 2560, 1>> } }

\* lookup rejects (ENOTFOUND, a timeout of the resolver, ...).
LookupFailed == [status |-> "error", family |-> 0, address |-> V4Text(<<>>)]

\* lookup fulfils with an address text that is no IP address.
LookupMalformed == Resolved(4, V4Text(<<>>))

DnsAnswers ==
    Answers4 \cup Answers6 \cup Answers6Dotted \cup {LookupFailed, LookupMalformed}

FetchOutcomes == {"response", "error"}

---------------------------------------------------------------------------
(* The state machine.                                                      *)

NoUrl == [scheme |-> <<>>, port |-> <<>>, host |-> <<>>]

Init ==
    /\ pc = "idle"
    /\ urlString = NoUrl
    /\ options = <<>>
    /\ answer = NoAnswer
    /\ dnsCalls = 0
    /\ fetched = <<>>
    /\ timer = NoTimer
    /\ aborted = FALSE
    /\ callerAborted = FALSE
    /\ result = Pending
    /\ cause = "none"
    /\ calls = 0

\* The call leaves its try block (lines 107-115) with result r: the
\* finally clears the timer and the promise of serverFetch settles.
Finally(r, c) ==
    /\ timer' = clearTimeout(timer)
    /\ result' = r
    /\ cause' = c
    /\ pc' = "done"

\* A variant that arms the timer before validating.
Call_TimerFirst(s, o) ==
    /\ pc = "idle"
    /\ calls < MaxCalls
    /\ calls' = calls + 1
    /\ urlString' = s
    /\ options' = o
    /\ UNCHANGED <<answer, fetched, aborted, callerAborted>>
    /\ LET head == validateUrlHead(s)
       IN  IF head.step = "throw"
           THEN /\ pc' = "done"
                /\ dnsCalls' = 0
                /\ timer' = clearTimeout(setTimeout(Timeout(o)))
                /\ result' = Rejected(head.error)
                /\ cause' = head.cause
           ELSE /\ pc' = "lookup"
                /\ dnsCalls' = 1
                /\ timer' = setTimeout(Timeout(o))
                /\ result' = Pending
                /\ cause' = "none"

\* serverFetch(s, o) up to its first await: lines 100-101 and 70-89.
Call(s, o) ==
    /\ pc = "idle"
    /\ calls < MaxCalls
    /\ calls' = calls + 1
    /\ urlString' = s
    /\ options' = o
    /\ timer' = NoTimer
    /\ UNCHANGED <<answer, fetched, aborted, callerAborted>>
    /\ LET head == validateUrlHead(s)
       IN  IF head.step = "throw"
           THEN /\ pc' = "done"
                /\ dnsCalls' = 0
                /\ result' = Rejected(head.error)
                /\ cause' = head.cause
           ELSE /\ pc' = "lookup"
                /\ dnsCalls' = 1
                /\ result' = Pending
                /\ cause' = "none"

\* lookup settles with ans: lines 50-66, 89-93, and, when validateUrl
\* returns, lines 103-108 up to the await of fetch.
LookupSettle(ans) ==
    /\ pc = "lookup"
    /\ answer' = ans
    /\ LET tail == validateUrlTail(NewURL(urlString).value, ans)
       IN  IF tail.step = "throw"
           THEN /\ pc' = "done"
                /\ result' = Rejected(tail.error)
                /\ cause' = tail.cause
                /\ UNCHANGED <<fetched, timer>>
           ELSE /\ pc' = "fetch"
                /\ timer' = setTimeout(Timeout(options))
                /\ fetched' = Append(fetched, [url  |-> tail.url,
                                               init |-> FetchInit(options)])
                /\ UNCHANGED <<result, cause>>
    /\ UNCHANGED <<urlString, options, dnsCalls, aborted, callerAborted, calls>>

\* A variant whose clearTimeout follows the await instead of sitting in a
\* finally: a rejection of fetch skips it.
FetchSettle_NoFinally(outcome) ==
    /\ pc = "fetch"
    /\ pc' = "done"
    /\ IF outcome = "response"
       THEN /\ timer' = clearTimeout(timer)
            /\ result' = Fulfilled([status |-> 200, url |-> fetched[1].url])
            /\ cause' = "response"
       ELSE /\ timer' = timer
            /\ result' = Rejected(NetworkError)
            /\ cause' = "network"
    /\ UNCHANGED <<urlString, options, answer, dnsCalls, fetched, aborted,
                   callerAborted, calls>>

\* fetch settles by itself, with a response or a network error: lines 108-115.
FetchSettle(outcome) ==
    /\ pc = "fetch"
    /\ IF outcome = "response"
       THEN Finally(Fulfilled([status |-> 200, url |-> fetched[1].url]), "response")
       ELSE Finally(Rejected(NetworkError), "network")
    /\ UNCHANGED <<urlString, options, answer, dnsCalls, fetched, aborted,
                   callerAborted, calls>>

\* A variant whose timer callback does not abort the controller.
TimerFire_NoAbort ==
    /\ pc = "fetch"
    /\ timer.state = "armed"
    /\ timer' = [timer EXCEPT !.state = "fired"]
    /\ UNCHANGED <<pc, result, cause, urlString, options, answer, dnsCalls,
                   fetched, aborted, callerAborted, calls>>

\* The timer of line 105 fires: controller.abort().  A fetch that was given
\* the controller's signal rejects with the abort error, and lines 113-115
\* run; a fetch that was given another signal goes on.
TimerFire ==
    /\ pc = "fetch"
    /\ timer.state = "armed"
    /\ aborted' = TRUE
    /\ IF fetched[1].init["signal"] = ControllerSignal
       THEN /\ timer' = clearTimeout([timer EXCEPT !.state = "fired"])
            /\ result' = Rejected(AbortError)
            /\ cause' = "timeout"
            /\ pc' = "done"
       ELSE /\ timer' = [timer EXCEPT !.state = "fired"]
            /\ UNCHANGED <<pc, result, cause>>
    /\ UNCHANGED <<urlString, options, answer, dnsCalls, fetched,
                   callerAborted, calls>>

\* The caller aborts the signal it put in options.  Only a fetch that was
\* given that signal reacts.
CallerAbort ==
    /\ pc \in {"lookup", "fetch"}
    /\ "signal" \in DOMAIN options
    /\ ~callerAborted
    /\ callerAborted' = TRUE
    /\ IF pc = "fetch" /\ fetched[1].init["signal"] = CallerSignal
       THEN Finally(Rejected(AbortError), "callerAbort")
       ELSE UNCHANGED <<pc, result, cause, timer>>
    /\ UNCHANGED <<urlString, options, answer, dnsCalls, fetched, aborted, calls>>

\* The settled call is over: its arguments and locals are gone, and the
\* next call starts from nothing.
Discard ==
    /\ pc = "done"
    /\ pc' = "idle"
    /\ urlString' = NoUrl
    /\ options' = <<>>
    /\ answer' = NoAnswer
    /\ dnsCalls' = 0
    /\ fetched' = <<>>
    /\ timer' = NoTimer
    /\ aborted' = FALSE
    /\ callerAborted' = FALSE
    /\ result' = Pending
    /\ cause' = "none"
    /\ UNCHANGED calls

Next ==
    \/ \E s \in Urls, o \in OptionsSet : Call(s, o)
    \/ \E ans \in DnsAnswers : LookupSettle(ans)
    \/ \E outcome \in FetchOutcomes : FetchSettle(outcome)
    \/ TimerFire
    \/ CallerAbort
    \/ Discard

Spec == Init /\ [][Next]_vars

---------------------------------------------------------------------------
(* What the specification declares, stated on the inputs and independently *)
(* of the operators above.                                                 *)

HttpSchemes == { <<"h","t","t","p">>, <<"h","t","t","p","s">>,
                 <<"H","T","T","P","S">> }

\* The URL text parses: it has a scheme, and its port, if any, fits 16 bits.
Parseable(s) ==
    /\ s.scheme # <<>>
    /\ s.port \in { <<>>, <<"8","0">>, <<"4","4","3">>, <<"8","0","8","0">>,
                    <<"2","1">>, <<"0">> }

ExplicitPortOutside(s) ==
    s.port \in { <<"8","0","8","0">>, <<"2","1">>, <<"0">>, <<"7","0","0","0","0">> }

RegistrableHosts == { <<"example", "com">>, <<"api", "example", "co", "uk">> }

\* The declared IPv4 ranges, octet by octet, and the metadata address.
DeclaredPrivate4(a) ==
    \/ a[1] = 0
    \/ a[1] = 10
    \/ a[1] = 100 /\ a[2] \in 64..127
    \/ a[1] = 127
    \/ a[1] = 169 /\ a[2] = 254
    \/ a[1] = 172 /\ a[2] \in 16..31
    \/ a[1] = 192 /\ a[2] = 168
    \/ a[1] = 198 /\ a[2] \in 18..19
    \/ a[1] >= 240
    \/ a = <<169, 254, 169, 254>>

\* The declared IPv6 ranges: ::1, ::, fc00::/7, fe80::/10.
DeclaredPrivate6(g) ==
    \/ g = <<0, 0, 0, 0, 0, 0, 0, 1>>
    \/ g = <<0, 0, 0, 0, 0, 0, 0, 0>>
    \/ g[1] \in 64512..65023
    \/ g[1] \in 65152..65215

\* The answer is an address of a declared range, in its own family's form.
DeclaredPrivate(ans) ==
    /\ ans.status = "ok"
    /\ \/ /\ ans.family = 4
          /\ Len(ans.address.parts) = 4
          /\ DeclaredPrivate4(ans.address.parts)
       \/ /\ ans.family = 6
          /\ ~ans.address.dotted
          /\ DeclaredPrivate6(ans.address.parts)

\* The answer is an IPv4-mapped IPv6 address, ::ffff:a.b.c.d.
Mapped(ans) ==
    /\ ans.status = "ok"
    /\ ans.family = 6
    /\ ans.address.dotted
    /\ SubSeq(ans.address.parts, 1, 6) = <<0, 0, 0, 0, 0, 65535>>

Embedded4(ans) ==
    << ans.address.parts[7] \div 256, ans.address.parts[7] % 256,
       ans.address.parts[8] \div 256, ans.address.parts[8] % 256 >>

ValidationCauses ==
    {"url", "scheme", "port", "suffix", "resolution", "address", "private"}

RejectedWith(e) == result.status = "rejected" /\ result.error = e

\* What tells one error from another when the text the caller passed in is
\* set aside: its name and the fixed head of its message.
ErrorKind(e) == <<e.name, e.message[1]>>

---------------------------------------------------------------------------
(* The claims.                                                             *)

\* C1: fetch is invoked at most once a call, and only for a URL text that
\* parses, has an http(s) scheme, an allowed port and a registrable host,
\* and whose lookup succeeded with an address outside the declared ranges;
\* a call that validation ended is rejected and has invoked no fetch.
C1_TransportOnlyAfterValidation ==
    /\ Len(fetched) <= 1
    /\ fetched # <<>> =>
          /\ Parseable(urlString)
          /\ urlString.scheme \in HttpSchemes
          /\ ~ExplicitPortOutside(urlString)
          /\ urlString.host \in RegistrableHosts
          /\ answer.status = "ok"
          /\ ~DeclaredPrivate(answer)
    /\ cause \in ValidationCauses =>
          /\ pc = "done"
          /\ result.status = "rejected"
          /\ fetched = <<>>

\* C1 witness: a call that a failed lookup ended, with no fetch made.
C1_Witness ==
    /\ pc = "done"
    /\ cause = "resolution"
    /\ dnsCalls = 1
    /\ fetched = <<>>
    /\ result.status = "rejected"

\* C2: once lookup has answered with an address of a declared range (or
\* 169.254.169.254), the call is rejected with the private-network error
\* and no fetch is made.
C2_PrivateAddressDenied ==
    DeclaredPrivate(answer) =>
        /\ pc = "done"
        /\ RejectedWith(PrivateNetworkError)
        /\ fetched = <<>>

\* C2 witness: the last address of 100.64.0.0/10 was answered and denied.
C2_Witness ==
    /\ answer.status = "ok"
    /\ answer.address.parts = <<100, 127, 255, 255>>
    /\ RejectedWith(PrivateNetworkError)

\* C3 (as claimed): an IPv4-mapped IPv6 answer whose embedded IPv4 address
\* is of a declared range is rejected with the private-network error.
C3_MappedPrivateDenied ==
    (Mapped(answer) /\ DeclaredPrivate4(Embedded4(answer))) =>
        RejectedWith(PrivateNetworkError)

\* C4: a call whose URL text parses and whose scheme is not http(s) is
\* rejected with the invalid-scheme error and makes no lookup.
C4_SchemeBeforeLookup ==
    (pc # "idle" /\ Parseable(urlString) /\ urlString.scheme \notin HttpSchemes) =>
        /\ pc = "done"
        /\ RejectedWith(InvalidSchemeError(urlString.scheme \o <<":">>))
        /\ dnsCalls = 0
        /\ answer = NoAnswer

\* C4 witness: ftp://example.com:21 was rejected for its scheme.
C4_Witness ==
    /\ urlString = [scheme |-> <<"f","t","p">>, port |-> <<"2","1">>,
                    host |-> <<"example", "com">>]
    /\ cause = "scheme"
    /\ dnsCalls = 0

\* C5 (as claimed): every call whose URL text parses and has an explicit
\* port outside {80, 443}, whatever its scheme, is rejected with the
\* invalid-port error, before any lookup.
C5_AnyUrlPortRejected ==
    (pc # "idle" /\ Parseable(urlString) /\ ExplicitPortOutside(urlString)) =>
        /\ pc = "done"
        /\ RejectedWith(InvalidPortError(parseInt(urlString.port)))
        /\ dnsCalls = 0

\* C5 (amended): a call whose URL text parses, has an http(s) scheme and an
\* explicit port outside {80, 443} is rejected with the invalid-port error,
\* before any lookup.
C5_PortBeforeLookup ==
    (/\ pc # "idle"
     /\ Parseable(urlString)
     /\ urlString.scheme \in HttpSchemes
     /\ ExplicitPortOutside(urlString)) =>
        /\ pc = "done"
        /\ RejectedWith(InvalidPortError(parseInt(urlString.port)))
        /\ dnsCalls = 0
        /\ answer = NoAnswer

\* C5 witness: http://example.com:8080 was rejected for its port.
C5_Witness ==
    /\ urlString = [scheme |-> <<"h","t","t","p">>, port |-> <<"8","0","8","0">>,
                    host |-> <<"example", "com">>]
    /\ cause = "port"
    /\ dnsCalls = 0

\* C6: once the call's timer has fired, the signal fetch was given is the
\* controller's and is aborted, and the call is rejected with the abort
\* error; no call that validation ended is rejected with that error.
C6_TimeoutAborts ==
    /\ timer.state = "fired" =>
          /\ aborted
          /\ fetched[1].init["signal"] = ControllerSignal
          /\ pc = "done"
          /\ RejectedWith(AbortError)
    /\ cause \in ValidationCauses =>
          /\ result.status = "rejected"
          /\ result.error # AbortError
          /\ result.error.name # AbortError.name

\* C6 witness: a request was in flight, the timer fired, the call failed.
C6_Witness ==
    /\ timer.state = "fired"
    /\ aborted
    /\ Len(fetched) = 1
    /\ RejectedWith(AbortError)

\* C7: when the call has settled, no timer of it is armed.
C7_NoTimerLeak ==
    pc \in {"done", "idle"} => timer.state # "armed"

\* C7 witness: fetch failed by itself and the timer was cleared.
C7_Witness ==
    /\ pc = "done"
    /\ cause = "network"
    /\ timer.state = "cleared"

\* C8 (as claimed): a call that a failed lookup ended is rejected with an
\* error that no unparseable address gives for the same URL, and whose
\* kind is not that of the public-suffix failure.
C8_DistinctErrors ==
    cause = "resolution" =>
        /\ result.status = "rejected"
        /\ \A a \in DnsAnswers :
              LET tail == validateUrlTail(NewURL(urlString).value, a)
              IN  (tail.step = "throw" /\ tail.cause = "address")
                      => tail.error # result.error
        /\ ErrorKind(result.error) # ErrorKind(InvalidHostnameError(<<"localhost">>))

\* C9: fetch is given the controller's signal, whatever signal the caller
\* put in options, and every other option as the caller gave it; the
\* signal is aborted only by the timer, and only the timer's firing makes
\* the call fail with the abort error.
C9_SignalOwned ==
    /\ fetched # <<>> =>
          LET init == fetched[1].init
          IN  /\ init["signal"] = ControllerSignal
              /\ DOMAIN init = DOMAIN options \cup {"signal"}
              /\ \A k \in DOMAIN options \ {"signal"} : init[k] = options[k]
    /\ aborted => timer.state = "fired"
    /\ (result.status = "rejected" /\ result.error.name = AbortError.name)
          => timer.state = "fired"

\* C9 witness: the caller has aborted its own signal and the request is
\* still in flight, unaborted.
C9_Witness ==
    /\ pc = "fetch"
    /\ "signal" \in DOMAIN options
    /\ options["signal"] = CallerSignal
    /\ callerAborted
    /\ ~aborted
    /\ result.status = "pending"

\* C10: while the lookup is pending there is no timer, no abort, and the
\* call is pending; a timer is armed exactly while fetch is in flight.
C10_TimerOnlyDuringFetch ==
    /\ pc = "lookup" =>
          /\ timer.state = "none"
          /\ ~aborted
          /\ result.status = "pending"
    /\ timer.state = "armed" <=> pc = "fetch"

\* C10 witness: a call with timeout 0 is waiting for its lookup, untimed.
C10_Witness ==
    /\ pc = "lookup"
    /\ "timeout" \in DOMAIN options
    /\ options["timeout"] = 0
    /\ timer.state = "none"

===========================================================================
